---- MODULE Spec2Model ----
(***************************************************************************)
(* Model of the OBJModel mesh handle (part1/src/OBJModel.cpp) and of the   *)
(* calls main.cpp makes on the global objModel: loadModelFromFile,         *)
(* setCacheMode and render.  A handle is a record of the class's data      *)
(* members plus the contents of the GPU buffers its vertex array object    *)
(* references.  Vectors are 0-based in the source; At0 reads them.         *)
(***************************************************************************)
EXTENDS Integers, Sequences, FiniteSets, Bags, TLC

(***************************************************************************)
(* Bounds of the model.                                                    *)
(***************************************************************************)
\* loads that get past the open check in one run (each one appends geometry)
MaxLoads == 2
\* setCacheMode(3) calls in one run
MaxShuffles == 1
\* clock values seeding std::shuffle: 0..MaxSeed
MaxSeed == 1
\* mode arguments tried: 0..MaxMode
MaxMode == 4
\* arguments tried for generateOffsetVectors on its own: 0..MaxOffsetArg
MaxOffsetArg == 3
\* values an out-of-bounds read may return: 0..MaxGarbage
MaxGarbage == 0

(***************************************************************************)
(* Program constants.                                                      *)
(***************************************************************************)
\* generateOffsetVectors(3) in the face branch
StressMaxOffset == 3
\* the print loop of setCacheMode reads indices.at(0..19)
PrintCount == 20

(***************************************************************************)
(* Helpers for 0-based vectors.                                            *)
(***************************************************************************)
At0(vec, i) == vec[i + 1]

\* i < vec.size() for an unsigned i.  An unsigned value is held as the
\* 32-bit two's-complement integer with the same bits, so a negative i
\* stands for a value of 2^31 or more, past the end of any vector here.
InRange0(vec, i) == i >= 0 /\ i < Len(vec)

\* std::vector::resize(n): truncate, or append value-initialised elements
Resize(vec, n) == [i \in 1..n |-> IF i <= Len(vec) THEN vec[i] ELSE 0]

VecAdd(a, b) == <<a[1] + b[1], a[2] + b[2], a[3] + b[3]>>

(***************************************************************************)
(* The files on disk.  A file either cannot be opened or is a list of      *)
(* records; a face record holds the three corner groups as sscanf reads    *)
(* them (position/texCoord/normal references, 1-based).                    *)
(***************************************************************************)
V(x, y, z) == [prefix |-> "v", args |-> <<x, y, z>>]
VT(u, v) == [prefix |-> "vt", args |-> <<u, v>>]
VN(x, y, z) == [prefix |-> "vn", args |-> <<x, y, z>>]
F(a, b, c) == [prefix |-> "f", args |-> <<a, b, c>>]
MtlLib(name) == [prefix |-> "mtllib", args |-> <<name>>]
UseMtl(name) == [prefix |-> "usemtl", args |-> <<name>>]
Other(word) == [prefix |-> word, args |-> <<>>]

ObjPaths == {"tri.obj", "quad.obj", "points.obj", "badref.obj", "missing.obj"}

ObjFiles ==
  [p \in ObjPaths |->
     CASE p = "tri.obj" ->
            [opens |-> TRUE,
             lines |-> << Other("#"), MtlLib("tri.mtl"),
                          V(0, 0, 0), V(1, 0, 0), V(0, 1, 0),
                          VT(0, 0), VT(1, 0), VT(0, 1),
                          VN(0, 0, 1), VN(0, 1, 0), VN(1, 0, 0),
                          UseMtl("bark"),
                          F(<<1, 1, 1>>, <<2, 2, 2>>, <<3, 3, 3>>) >>]
       [] p = "quad.obj" ->
            [opens |-> TRUE,
             lines |-> << MtlLib("gone.mtl"),
                          V(0, 0, 0), V(2, 0, 0), V(2, 2, 0), V(0, 2, 0),
                          VT(0, 0), VT(1, 1),
                          VN(0, 0, 1),
                          F(<<1, 1, 1>>, <<2, 2, 1>>, <<3, 2, 1>>),
                          F(<<1, 1, 1>>, <<3, 2, 1>>, <<4, 1, 1>>) >>]
       [] p = "points.obj" ->
            [opens |-> TRUE,
             lines |-> << V(5, 5, 5), V(6, 6, 6), VT(0, 0), VN(1, 0, 0) >>]
       [] p = "badref.obj" ->
            [opens |-> TRUE,
             lines |-> << V(0, 0, 0), V(1, 0, 0), V(0, 1, 0),
                          VT(0, 0), VN(0, 0, 1),
                          F(<<0, 1, 1>>, <<2, 1, 1>>, <<4, 1, 1>>) >>]
       [] OTHER -> [opens |-> FALSE, lines |-> <<>>] ]

\* number of face records of a file
FaceCount(p) == Len(SelectSeq(ObjFiles[p].lines, LAMBDA l : l.prefix = "f"))

\* a face corner is well-formed when its three references are in 1..size
CornerInRange(c, nv, nt, nn) ==
  /\ c[1] >= 1 /\ c[1] <= nv
  /\ c[2] >= 1 /\ c[2] <= nt
  /\ c[3] >= 1 /\ c[3] <= nn

RECURSIVE LinesInRange(_, _, _, _)
LinesInRange(lines, nv, nt, nn) ==
  IF lines = <<>> THEN TRUE
  ELSE LET l == Head(lines) IN
       CASE l.prefix = "v" -> LinesInRange(Tail(lines), nv + 1, nt, nn)
         [] l.prefix = "vt" -> LinesInRange(Tail(lines), nv, nt + 1, nn)
         [] l.prefix = "vn" -> LinesInRange(Tail(lines), nv, nt, nn + 1)
         [] l.prefix = "f" ->
              /\ \A i \in 1..3 : CornerInRange(l.args[i], nv, nt, nn)
              /\ LinesInRange(Tail(lines), nv, nt, nn)
         [] OTHER -> LinesInRange(Tail(lines), nv, nt, nn)

\* files that open and whose every reference is in range
ValidPaths == {p \in ObjPaths : ObjFiles[p].opens /\ LinesInRange(ObjFiles[p].lines, 0, 0, 0)}

\* files that open and hold a face with an out-of-range reference
BadRefPaths == {p \in ObjPaths : ObjFiles[p].opens /\ ~LinesInRange(ObjFiles[p].lines, 0, 0, 0)}

MtlFiles(name) ==
  IF name = "tri.mtl"
  THEN [opens |-> TRUE,
        lines |-> << [prefix |-> "Ns", args |-> <<10>>],
                     [prefix |-> "Kd", args |-> <<1, 2, 3>>],
                     [prefix |-> "map_Kd", args |-> <<"bark.ppm">>] >>]
  ELSE [opens |-> FALSE, lines |-> <<>>]

(***************************************************************************)
(* Material (OBJModel.hpp) and LoadMaterials.  A texture is represented by *)
(* the name of the image file it was loaded from ("" when none).           *)
(***************************************************************************)
DefaultMaterial ==
  [ns |-> 0, ka |-> <<0, 0, 0>>, kd |-> <<0, 0, 0>>, ks |-> <<0, 0, 0>>,
   ni |-> 0, d |-> 0, illum |-> 0,
   map_kd |-> "", map_bump |-> "", map_ks |-> ""]

MaterialRecord(m, l) ==
  CASE l.prefix = "Ns" -> [m EXCEPT !.ns = l.args[1]]
    [] l.prefix = "Ka" -> [m EXCEPT !.ka = l.args]
    [] l.prefix = "Kd" -> [m EXCEPT !.kd = l.args]
    [] l.prefix = "Ks" -> [m EXCEPT !.ks = l.args]
    [] l.prefix = "Ni" -> [m EXCEPT !.ni = l.args[1]]
    [] l.prefix = "d" -> [m EXCEPT !.d = l.args[1]]
    [] l.prefix = "illum" -> [m EXCEPT !.illum = l.args[1]]
    [] l.prefix = "map_Kd" -> [m EXCEPT !.map_kd = l.args[1]]
    [] l.prefix = "map_Bump" -> [m EXCEPT !.map_bump = l.args[1]]
    [] l.prefix = "map_Ks" -> [m EXCEPT !.map_ks = l.args[1]]
    [] OTHER -> m

RECURSIVE MaterialLines(_, _)
MaterialLines(m, lines) ==
  IF lines = <<>> THEN m
  ELSE MaterialLines(MaterialRecord(m, Head(lines)), Tail(lines))

LoadMaterials(m, mtlFilePath) ==
  IF ~MtlFiles(mtlFilePath).opens THEN m
  ELSE MaterialLines(m, MtlFiles(mtlFilePath).lines)

(***************************************************************************)
(* generateOffsetVectors: the triple loop x, y, z over -maxOffset ..       *)
(* maxOffset, z innermost, skipping (0,0,0).                               *)
(***************************************************************************)
\* variant of the loop condition with < for <=
OffsetLoopCond_lt(v, maxOffset) == v < maxOffset

\* the condition of the three for loops
OffsetLoopCond(v, maxOffset) == v <= maxOffset

generateOffsetVectors(maxOffset) ==
  LET vals == SelectSeq([i \in 1..(2 * maxOffset + 1) |-> i - 1 - maxOffset],
                        LAMBDA v : OffsetLoopCond(v, maxOffset))
      w == Len(vals)
      all == [k \in 1..(w * w * w) |->
                << vals[((k - 1) \div (w * w)) + 1],
                   vals[(((k - 1) \div w) % w) + 1],
                   vals[((k - 1) % w) + 1] >>]
  IN SelectSeq(all, LAMBDA o : o[1] # 0 \/ o[2] # 0 \/ o[3] # 0)

(***************************************************************************)
(* The face branch of loadModelFromFile.  ps is the state of the parse:    *)
(* the temporary attribute lists and the handle's vertices and indices.    *)
(* A lookup outside a temporary list is undefined behaviour: it is         *)
(* recorded in ps.oob and yields the value `garbage` (the action decides   *)
(* whether the process survives it).                                       *)
(***************************************************************************)
\* variant that looks the 1-based reference up as it stands
RefIndex_noConvert(ref) == ref

\* vIndex[i] - 1 in unsigned arithmetic: reference 0 wraps to 2^32 - 1,
\* held as -1 (see InRange0)
RefIndex(ref) == ref - 1

\* variant that pushes vertices.size() itself
PushedIndex_size(size) == size

\* indices.push_back(vertices.size() - 1), size taken after the vertex was
\* pushed
PushedIndex(size) == size - 1

Fetch(vec, idx, garbage) == IF InRange0(vec, idx) THEN At0(vec, idx) ELSE garbage

FaceRecord(ps, corners, garbage) ==
  LET vIndex == [i \in 1..3 |-> corners[i][1]]
      uvIndex == [i \in 1..3 |-> corners[i][2]]
      nIndex == [i \in 1..3 |-> corners[i][3]]
      pos == [i \in 1..3 |-> Fetch(ps.temp_vertices, RefIndex(vIndex[i]),
                                   <<garbage, garbage, garbage>>)]
      tex == [i \in 1..3 |-> Fetch(ps.temp_texCoords, RefIndex(uvIndex[i]),
                                   <<garbage, garbage>>)]
      nor == [i \in 1..3 |-> Fetch(ps.temp_normals, RefIndex(nIndex[i]),
                                   <<garbage, garbage, garbage>>)]
      offsets == generateOffsetVectors(StressMaxOffset)
      count == 3 * (1 + Len(offsets))
      newVertices ==
        [k \in 1..count |->
           LET copy == (k - 1) \div 3
               i == ((k - 1) % 3) + 1
           IN [position |-> IF copy = 0 THEN pos[i]
                            ELSE VecAdd(pos[i], offsets[copy]),
               texCoords |-> tex[i],
               normal |-> nor[i]]]
      base == Len(ps.vertices)
      newIndices == [k \in 1..count |-> PushedIndex(base + k)]
      outside == \E i \in 1..3 :
                    \/ ~InRange0(ps.temp_vertices, RefIndex(vIndex[i]))
                    \/ ~InRange0(ps.temp_texCoords, RefIndex(uvIndex[i]))
                    \/ ~InRange0(ps.temp_normals, RefIndex(nIndex[i]))
  IN [ps EXCEPT !.vertices = ps.vertices \o newVertices,
                !.indices = ps.indices \o newIndices,
                !.oob = ps.oob \/ outside]

\* one iteration of the getline loop
ParseLine(ps, l, garbage) ==
  CASE l.prefix = "mtllib" ->
         [ps EXCEPT !.material = LoadMaterials(ps.material, l.args[1])]
    [] l.prefix = "usemtl" -> ps
    [] l.prefix = "v" ->
         [ps EXCEPT !.temp_vertices = Append(ps.temp_vertices, l.args)]
    [] l.prefix = "vt" ->
         [ps EXCEPT !.temp_texCoords = Append(ps.temp_texCoords, l.args)]
    [] l.prefix = "vn" ->
         [ps EXCEPT !.temp_normals = Append(ps.temp_normals, l.args)]
    [] l.prefix = "f" -> FaceRecord(ps, l.args, garbage)
    [] OTHER -> ps

RECURSIVE ParseLines(_, _, _)
ParseLines(ps, lines, garbage) ==
  IF lines = <<>> THEN ps
  ELSE ParseLines(ParseLine(ps, Head(lines), garbage), Tail(lines), garbage)

(***************************************************************************)
(* The Vertex-Cache Optimizer.  forsyth.h is not among the sources; it is  *)
(* modelled from the design description: the output is the input's         *)
(* triangles reordered, nothing else, and the order is a function of the   *)
(* input alone.  Every triangle is scored as it is before the first        *)
(* emission, when no vertex is resident in the cache and a vertex's score  *)
(* is its valence bonus (larger for fewer referencing corners); triangles  *)
(* are emitted by descending score, equal scores in input order.  The      *)
(* rescoring by cache position after each emission is not modelled.  A     *)
(* list whose triangles share no vertex comes back unchanged.              *)
(***************************************************************************)
RECURSIVE BagOfRange(_, _, _)
BagOfRange(vec, lo, hi) ==
  IF lo > hi THEN EmptyBag
  ELSE IF lo = hi THEN SetToBag({vec[lo]})
  ELSE LET mid == (lo + hi) \div 2
       IN BagOfRange(vec, lo, mid) (+) BagOfRange(vec, mid + 1, hi)

\* the multiset of the elements of a vector
BagOfSeq(vec) == BagOfRange(vec, 1, Len(vec))

ValenceBoost(valence) == 6000 \div valence

RECURSIVE EmitByScore(_, _, _)
EmitByScore(scores, tris, score) ==
  IF scores = {} THEN <<>>
  ELSE LET best == CHOOSE x \in scores : \A y \in scores : y <= x
       IN SelectSeq(tris, LAMBDA t : score[t] = best)
            \o EmitByScore(scores \ {best}, tris, score)

forsythReorderIndices(inIndices, nTriangles, nVertices) ==
  LET used == SubSeq(inIndices, 1, 3 * nTriangles)
      valence == BagOfSeq(used)
      score == [t \in 1..nTriangles |->
                  ValenceBoost(CopiesIn(used[3 * t - 2], valence))
                    + ValenceBoost(CopiesIn(used[3 * t - 1], valence))
                    + ValenceBoost(CopiesIn(used[3 * t], valence))]
      order == EmitByScore({score[t] : t \in 1..nTriangles},
                           [t \in 1..nTriangles |-> t], score)
  IN [i \in 1..(3 * nTriangles) |->
        used[3 * (order[((i - 1) \div 3) + 1] - 1) + ((i - 1) % 3) + 1]]

(***************************************************************************)
(* The mesh handle: the data members of OBJModel, and the data of the      *)
(* vertex and element buffers that the vertex array object `vao` refers    *)
(* to.  objModel is a global, so its members start zeroed or empty.        *)
(***************************************************************************)
EmptyHandle ==
  [vertices |-> <<>>, indices |-> <<>>, oriIndices |-> <<>>,
   optiIndices |-> <<>>, material |-> DefaultMaterial,
   vao |-> 0, vboData |-> <<>>, eboData |-> <<>>]

\* variant that leaves optiIndices at its old size
optimizingIndices_noResize(h) ==
  LET n == Len(h.indices)
      optimizedIndices ==
        Resize(forsythReorderIndices(h.indices, n \div 3, Len(h.vertices)), n)
  IN [h EXCEPT !.indices = optimizedIndices]

\* variant that resizes optiIndices and drops the optimizer's output
optimizingIndices_noWrite(h) ==
  [h EXCEPT !.optiIndices = Resize(h.optiIndices, Len(h.indices))]

\* optimizingIndices: the optimizer's output is written through
\* indices.begin(); optiIndices is only resized.
optimizingIndices(h) ==
  LET n == Len(h.indices)
      optimizedIndices ==
        Resize(forsythReorderIndices(h.indices, n \div 3, Len(h.vertices)), n)
  IN [h EXCEPT !.optiIndices = Resize(h.optiIndices, n),
               !.indices = optimizedIndices]

\* setupBuffers: a new vertex array object with new buffers holding copies
\* of vertices and indices.  The element buffer is deleted by name after the
\* vertex array is unbound, so the vertex array keeps it alive.
setupBuffers(h) ==
  [h EXCEPT !.vao = h.vao + 1,
            !.vboData = h.vertices,
            !.eboData = h.indices]

\* variant that empties vertices, and only vertices, before the parse
StartParse_clearVertices(h) ==
  [temp_vertices |-> <<>>, temp_texCoords |-> <<>>, temp_normals |-> <<>>,
   vertices |-> <<>>, indices |-> h.indices,
   material |-> h.material, oob |-> FALSE]

\* the state of the parse when the getline loop starts
StartParse(h) ==
  [temp_vertices |-> <<>>, temp_texCoords |-> <<>>, temp_normals |-> <<>>,
   vertices |-> h.vertices, indices |-> h.indices,
   material |-> h.material, oob |-> FALSE]

\* loadModelFromFile after the file has been opened
LoadOpened(h, lines, garbage) ==
  LET ps == ParseLines(StartParse(h), lines, garbage)
      parsed == [h EXCEPT !.vertices = ps.vertices,
                          !.indices = ps.indices,
                          !.material = ps.material]
      saved == [parsed EXCEPT !.oriIndices = parsed.indices]
  IN setupBuffers(optimizingIndices(saved))

\* whether the parse of these lines performs a lookup outside a temporary list
LoadReadsOutside(h, lines) == ParseLines(StartParse(h), lines, 0).oob

\* variant without the early return of the failed open: the rest of the
\* function runs on an empty stream
loadModelFromFile_noReturn(h, filepath, garbage) ==
  LoadOpened(h, ObjFiles[filepath].lines, garbage)

loadModelFromFile(h, filepath, garbage) ==
  IF ~ObjFiles[filepath].opens THEN h
  ELSE LoadOpened(h, ObjFiles[filepath].lines, garbage)

(***************************************************************************)
(* setCacheMode.  std::shuffle with an engine seeded from the clock: any   *)
(* permutation can come out; the model draws it from the family below,     *)
(* indexed by the seed: a rotation by seed + 1 places, reversed when the   *)
(* seed is odd.                                                            *)
(***************************************************************************)
Shuffle(vec, seed) ==
  LET n == Len(vec)
  IN [i \in 1..n |->
        LET j == (i + seed) % n
        IN IF seed % 2 = 1 THEN vec[n - j] ELSE vec[j + 1]]

\* variant whose last branch is a plain else: every other mode shuffles
setCacheMode_elseShuffle(h, mode, seed) ==
  IF mode = 1 THEN [h EXCEPT !.indices = h.oriIndices]
  ELSE IF mode = 2 THEN [h EXCEPT !.indices = h.optiIndices]
  ELSE [h EXCEPT !.indices = Shuffle(h.indices, seed)]

\* variant that swaps the vectors instead of copying
setCacheMode_swap(h, mode, seed) ==
  IF mode = 1
  THEN [h EXCEPT !.indices = h.oriIndices, !.oriIndices = h.indices]
  ELSE IF mode = 2
  THEN [h EXCEPT !.indices = h.optiIndices, !.optiIndices = h.indices]
  ELSE IF mode = 3 THEN [h EXCEPT !.indices = Shuffle(h.indices, seed)]
  ELSE h

\* variant that shuffles the saved parse order in place in mode 3
setCacheMode_shuffleOri(h, mode, seed) ==
  IF mode = 1 THEN [h EXCEPT !.indices = h.oriIndices]
  ELSE IF mode = 2 THEN [h EXCEPT !.indices = h.optiIndices]
  ELSE IF mode = 3
  THEN [h EXCEPT !.oriIndices = Shuffle(h.oriIndices, seed),
                 !.indices = Shuffle(h.oriIndices, seed)]
  ELSE h

setCacheMode(h, mode, seed) ==
  IF mode = 1 THEN [h EXCEPT !.indices = h.oriIndices]
  ELSE IF mode = 2 THEN [h EXCEPT !.indices = h.optiIndices]
  ELSE IF mode = 3 THEN [h EXCEPT !.indices = Shuffle(h.indices, seed)]
  ELSE h

\* variant whose print loop stops at the end of indices
PrintThrows_bounded(h) ==
  \E i \in 0..(Len(h.indices) - 1) : i < PrintCount /\ ~InRange0(h.indices, i)

\* the print loop: indices.at(i) throws std::out_of_range for i >= size
PrintThrows(h) == \E i \in 0..(PrintCount - 1) : ~InRange0(h.indices, i)

\* render: glDrawElements reads indices.size() elements of the element
\* buffer of the bound vertex array.  A read past the end of the buffer has
\* no defined value and is marked -1; indices and the buffer change length
\* together, in loadModelFromFile only, so no reachable state has one.
DrawElements(h) ==
  [i \in 1..Len(h.indices) |->
     IF i <= Len(h.eboData) THEN h.eboData[i] ELSE -1]

(***************************************************************************)
(* State.                                                                  *)
(*   objModel   the global mesh handle of main.cpp                         *)
(*   status     "running"; "terminated" after an uncaught exception (main  *)
(*              has no handler); "crashed" when an out-of-bounds read      *)
(*              killed the process                                         *)
(*   drawn      the index stream glDrawElements read during the last call  *)
(*              (empty when the call drew nothing)                         *)
(*   reported   what the last call reported as an error: "IOError" (the    *)
(*              message of a failed open on std::cerr) or "none"           *)
(*   oobRead    the last call read outside a temporary attribute list      *)
(*   lastCall   the last call made on the handle                           *)
(*   again      lastCall repeated the call made just before it             *)
(*   loaded     the files that got past the open check, in order           *)
(*   nShuffles  number of setCacheMode(3) calls so far                     *)
(*   offsetArg, offsets   argument and result of the last direct call of   *)
(*              generateOffsetVectors (-1 and empty before any)            *)
(***************************************************************************)
VARIABLES objModel, status, drawn, reported, oobRead, lastCall, again,
          loaded, nShuffles, offsetArg, offsets

vars == <<objModel, status, drawn, reported, oobRead, lastCall, again,
          loaded, nShuffles, offsetArg, offsets>>

Call(op, arg) == [op |-> op, arg |-> arg]

\* the bookkeeping of one more call c
Called(c) == lastCall' = c /\ again' = (lastCall = c)

\* what an out-of-bounds read can turn out to be: the process dies, or the
\* read returns some value
UBOutcomes ==
  {[crash |-> TRUE, value |-> 0]}
    \cup {[crash |-> FALSE, value |-> g] : g \in 0..MaxGarbage}

\* the outcome that is passed when no out-of-bounds read happens
NoUB == [crash |-> FALSE, value |-> 0]

Init ==
  /\ objModel = EmptyHandle
  /\ status = "running"
  /\ drawn = <<>>
  /\ reported = "none"
  /\ oobRead = FALSE
  /\ lastCall = Call("none", 0)
  /\ again = FALSE
  /\ loaded = <<>>
  /\ nShuffles = 0
  /\ offsetArg = -1
  /\ offsets = <<>>

\* objModel.loadModelFromFile(filepath); ub is what the undefined behaviour
\* of an out-of-bounds read turns out to be: a crash or the value read
LoadModel(filepath, ub) ==
  LET file == ObjFiles[filepath]
      outside == file.opens /\ LoadReadsOutside(objModel, file.lines)
  IN /\ status = "running"
     /\ file.opens => Len(loaded) < MaxLoads
     /\ ~outside => ub = NoUB
     /\ IF outside /\ ub.crash
        THEN /\ status' = "crashed"
             /\ UNCHANGED objModel
        ELSE /\ objModel' = loadModelFromFile(objModel, filepath, ub.value)
             /\ UNCHANGED status
     /\ reported' = IF file.opens THEN "none" ELSE "IOError"
     /\ oobRead' = outside
     /\ Called(Call("load", filepath))
     /\ loaded' = IF file.opens THEN Append(loaded, filepath) ELSE loaded
     /\ drawn' = <<>>
     /\ UNCHANGED <<nShuffles, offsetArg, offsets>>

\* objModel.setCacheMode(mode); seed is the clock value read in mode 3
SetCacheMode(mode, seed) ==
  /\ status = "running"
  /\ IF mode = 3 THEN nShuffles < MaxShuffles ELSE seed = 0
  /\ objModel' = setCacheMode(objModel, mode, seed)
  /\ status' = IF PrintThrows(objModel') THEN "terminated" ELSE "running"
  /\ nShuffles' = IF mode = 3 THEN nShuffles + 1 ELSE nShuffles
  /\ Called(Call("setCacheMode", mode))
  /\ drawn' = <<>>
  /\ reported' = "none"
  /\ oobRead' = FALSE
  /\ UNCHANGED <<loaded, offsetArg, offsets>>

\* objModel.render()
Render ==
  /\ status = "running"
  /\ drawn' = DrawElements(objModel)
  /\ Called(Call("render", 0))
  /\ reported' = "none"
  /\ oobRead' = FALSE
  /\ UNCHANGED <<objModel, status, loaded, nShuffles, offsetArg, offsets>>

Next ==
  \/ \E filepath \in ObjPaths, ub \in UBOutcomes : LoadModel(filepath, ub)
  \/ \E mode \in 0..MaxMode, seed \in 0..MaxSeed : SetCacheMode(mode, seed)
  \/ Render

Spec == Init /\ [][Next]_vars

(***************************************************************************)
(* A second specification for the Stress Replicator: generateOffsetVectors *)
(* is called directly with arguments 0..MaxOffsetArg, next to the loads.   *)
(***************************************************************************)
GenerateOffsets(maxOffset) ==
  /\ status = "running"
  /\ offsetArg' = maxOffset
  /\ offsets' = generateOffsetVectors(maxOffset)
  /\ UNCHANGED <<objModel, status, drawn, reported, oobRead, lastCall,
                 again, loaded, nShuffles>>

NextStress ==
  \/ \E maxOffset \in 0..MaxOffsetArg : GenerateOffsets(maxOffset)
  \/ \E filepath \in ObjPaths, ub \in UBOutcomes : LoadModel(filepath, ub)

SpecStress == Init /\ [][NextStress]_vars

TypeOK ==
  /\ status \in {"running", "terminated", "crashed"}
  /\ again \in BOOLEAN
  /\ Len(loaded) <= MaxLoads
  /\ nShuffles <= MaxShuffles

(***************************************************************************)
(* Vocabulary of the properties.                                           *)
(***************************************************************************)
\* same length and same multiset of values
IsPermutation(a, b) == Len(a) = Len(b) /\ BagOfSeq(a) = BagOfSeq(b)

\* the index sequence the parse of a file produces in an empty handle
ParseOrder(filepath) ==
  ParseLines(StartParse(EmptyHandle), ObjFiles[filepath].lines, 0).indices

\* the handle obtained by loading a file into a fresh empty handle
FreshLoad(filepath) == loadModelFromFile(EmptyHandle, filepath, 0)

\* the indices of a handle's vertices in the order the parse appended them
\* (each push_back of a vertex is followed by that of vertices.size() - 1)
AppendOrder(h) == [i \in 1..Len(h.vertices) |-> i - 1]

\* the last file that got past the open check
CurrentFile == loaded[Len(loaded)]

\* the handle holds the result of exactly one load, of a valid file
OneValidLoad == Len(loaded) = 1 /\ loaded[1] \in ValidPaths

\* the last call was setCacheMode(mode) and returned normally
AfterMode(mode) == lastCall = Call("setCacheMode", mode) /\ status = "running"

(***************************************************************************)
(* C1. After one successful load of a valid file and any setCacheMode      *)
(* calls, oriIndices, optiIndices and indices are permutations of one      *)
(* another.  The code leaves optiIndices filled with zeros.                *)
(***************************************************************************)
CE_C1_ThreeVariantsPermutations ==
  (OneValidLoad /\ status = "running") =>
    /\ IsPermutation(objModel.oriIndices, objModel.optiIndices)
    /\ IsPermutation(objModel.oriIndices, objModel.indices)

(***************************************************************************)
(* C2. After setCacheMode(2) the active sequence is the optimizer's        *)
(* reordering of the original sequence, a permutation of it.               *)
(***************************************************************************)
CE_C2_Mode2IsOptimized ==
  (OneValidLoad /\ AfterMode(2)) =>
    /\ objModel.indices =
         forsythReorderIndices(objModel.oriIndices,
                               Len(objModel.oriIndices) \div 3,
                               Len(objModel.vertices))
    /\ IsPermutation(objModel.indices, objModel.oriIndices)

(***************************************************************************)
(* C3. After setCacheMode(1), whatever calls came before, the active       *)
(* sequence is the parse-order sequence of the loaded file, never a        *)
(* shuffled one.  Read in the code's favour: it is the sequence the parse  *)
(* of the last file produces, or else the indices of everything parsed so  *)
(* far in the order the parse appended them.                               *)
(***************************************************************************)
CE_C3_Mode1IsParseOrder ==
  (Len(loaded) >= 1 /\ lastCall = Call("setCacheMode", 1)) =>
    \/ objModel.indices = ParseOrder(CurrentFile)
    \/ objModel.indices = AppendOrder(objModel)

(***************************************************************************)
(* C4. After a load into a handle that already holds a mesh, vertices and  *)
(* the three index sequences are those of a load into an empty handle.     *)
(***************************************************************************)
CE_C4_ReloadReplaces ==
  (/\ lastCall.op = "load"
   /\ status = "running"
   /\ Len(loaded) >= 2
   /\ CurrentFile = lastCall.arg
   /\ CurrentFile \in ValidPaths) =>
    /\ objModel.vertices = FreshLoad(CurrentFile).vertices
    /\ objModel.oriIndices = FreshLoad(CurrentFile).oriIndices
    /\ objModel.optiIndices = FreshLoad(CurrentFile).optiIndices
    /\ objModel.indices = FreshLoad(CurrentFile).indices

(***************************************************************************)
(* C5. The render that follows a setCacheMode call draws the sequence the  *)
(* call made active.                                                       *)
(***************************************************************************)
CE_C5_DrawReadsActive ==
  [][(lastCall.op = "setCacheMode" /\ lastCall'.op = "render")
       => drawn' = objModel'.indices]_vars

(***************************************************************************)
(* C6. A load of a file that cannot be opened leaves the handle as it was: *)
(* vertices, the three index sequences, the material and the GPU buffers.  *)
(***************************************************************************)
Thm_C6_FailedOpenKeepsMesh ==
  [][(lastCall'.op = "load" /\ ~ObjFiles[lastCall'.arg].opens)
       => objModel' = objModel]_vars

Wit_C6_FailedOpenOnLoadedMesh ==
  /\ lastCall = Call("load", "missing.obj")
  /\ reported = "IOError"
  /\ Len(objModel.vertices) > 0
  /\ objModel.vao > 0

(***************************************************************************)
(* C7. A load of a file with an out-of-range face reference reports a      *)
(* format error and reads nothing outside the temporary lists.             *)
(***************************************************************************)
CE_C7_BadReferenceIsFormatError ==
  (lastCall.op = "load" /\ lastCall.arg \in BadRefPaths) =>
    (reported = "FormatError" /\ ~oobRead)

(***************************************************************************)
(* C8. setCacheMode with a mode other than 1, 2, 3 changes none of         *)
(* indices, oriIndices, optiIndices, vertices.                             *)
(***************************************************************************)
Thm_C8_OtherModeNoOp ==
  [][(lastCall'.op = "setCacheMode" /\ lastCall'.arg \notin {1, 2, 3})
       => /\ objModel'.indices = objModel.indices
          /\ objModel'.oriIndices = objModel.oriIndices
          /\ objModel'.optiIndices = objModel.optiIndices
          /\ objModel'.vertices = objModel.vertices]_vars

Wit_C8_OtherModeOnLoadedMesh ==
  /\ lastCall.op = "setCacheMode"
  /\ lastCall.arg \notin {1, 2, 3}
  /\ status = "running"
  /\ nShuffles > 0
  /\ Len(objModel.indices) > 0

(***************************************************************************)
(* C9. setCacheMode(1) right after setCacheMode(1), and setCacheMode(2)    *)
(* right after setCacheMode(2), leave the active sequence as it was.       *)
(***************************************************************************)
Thm_C9_RepeatedModeSameActive ==
  [][(/\ lastCall.op = "setCacheMode"
      /\ lastCall.arg \in {1, 2}
      /\ lastCall' = lastCall)
       => objModel'.indices = objModel.indices]_vars

Wit_C9_ModeCalledTwice ==
  /\ again
  /\ lastCall = Call("setCacheMode", 2)
  /\ status = "running"
  /\ Len(objModel.indices) > 0

(***************************************************************************)
(* C10. generateOffsetVectors(n) returns the (2n+1)^3 - 1 distinct         *)
(* non-zero vectors with components in -n..n, and a load of a file with F  *)
(* faces into an empty handle leaves 343*F triangles: 1029*F vertices and  *)
(* 1029*F indices.                                                         *)
(***************************************************************************)
Thm_C10_Replication ==
  /\ offsetArg >= 0 =>
       /\ Len(offsets) = (2 * offsetArg + 1) * (2 * offsetArg + 1)
                           * (2 * offsetArg + 1) - 1
       /\ Cardinality({offsets[i] : i \in 1..Len(offsets)}) = Len(offsets)
       /\ \A i \in 1..Len(offsets) :
            /\ offsets[i] # <<0, 0, 0>>
            /\ \A c \in 1..3 : offsets[i][c] \in (-offsetArg)..offsetArg
  /\ (OneValidLoad /\ status = "running") =>
       /\ Len(objModel.vertices) = 1029 * FaceCount(loaded[1])
       /\ Len(objModel.indices) = 1029 * FaceCount(loaded[1])
       /\ Len(objModel.indices) \div 3 = 343 * FaceCount(loaded[1])

Wit_C10_TwoFacesLoaded ==
  /\ offsetArg = 3
  /\ Len(offsets) = 342
  /\ loaded = <<"quad.obj">>
  /\ Len(objModel.indices) = 2058

(***************************************************************************)
(* C11. The face f 1/1/1 2/2/2 3/3/3 parsed with 3 positions, 3 texCoords  *)
(* and 3 normals into empty vertex storage (the file tri.obj).  As         *)
(* claimed: exactly one new triangle, indices 0,1,2 on three new vertices  *)
(* holding positions[0..2], texCoords[0..2], normals[0..2].                *)
(***************************************************************************)
\* the arguments of the i-th record with this prefix in a file (i from 1)
FileAttribute(filepath, prefix, i) ==
  SelectSeq(ObjFiles[filepath].lines, LAMBDA l : l.prefix = prefix)[i].args

\* vertex number idx (0-based) holds the file's attributes number c (0-based)
HoldsAttributes(h, idx, filepath, c) ==
  /\ InRange0(h.vertices, idx)
  /\ At0(h.vertices, idx).position = FileAttribute(filepath, "v", c + 1)
  /\ At0(h.vertices, idx).texCoords = FileAttribute(filepath, "vt", c + 1)
  /\ At0(h.vertices, idx).normal = FileAttribute(filepath, "vn", c + 1)

CE_C11_ExactlyOneTriangle ==
  loaded = <<"tri.obj">> =>
    /\ objModel.oriIndices = <<0, 1, 2>>
    /\ Len(objModel.vertices) = 3
    /\ \A c \in 0..2 : HoldsAttributes(objModel, c, "tri.obj", c)

(***************************************************************************)
(* C11 as amended: the face yields 343 triangles, indices 0..1028 on 1029  *)
(* new vertices.  The first is the triangle of the claim; each of the      *)
(* other 342 repeats its texCoords and normals, corner by corner, with the *)
(* positions moved by one non-zero offset with components in -3..3.        *)
(***************************************************************************)
Thm_C11_FirstTriangleThenCopies ==
  loaded = <<"tri.obj">> =>
    /\ Len(objModel.oriIndices) = 1029
    /\ Len(objModel.vertices) = 1029
    /\ SubSeq(objModel.oriIndices, 1, 3) = <<0, 1, 2>>
    /\ \A c \in 0..2 :
         HoldsAttributes(objModel, At0(objModel.oriIndices, c), "tri.obj", c)
    /\ \A t \in 1..342 :
         \E o \in ((-3)..3) \X ((-3)..3) \X ((-3)..3) :
           /\ o # <<0, 0, 0>>
           /\ \A c \in 0..2 :
                LET v == At0(objModel.vertices, At0(objModel.oriIndices, 3 * t + c))
                IN /\ v.position = VecAdd(FileAttribute("tri.obj", "v", c + 1), o)
                   /\ v.texCoords = FileAttribute("tri.obj", "vt", c + 1)
                   /\ v.normal = FileAttribute("tri.obj", "vn", c + 1)

Wit_C11_TriLoadedIntoEmptyHandle ==
  /\ loaded = <<"tri.obj">>
  /\ lastCall = Call("load", "tri.obj")
  /\ status = "running"
  /\ objModel.vao = 1

\* every file that got past the open check is a valid file
AllLoadsValid == \A i \in 1..Len(loaded) : loaded[i] \in ValidPaths

\* every value of vec is the 0-based number of a stored vertex
InBounds(h, vec) == \A i \in 1..Len(vec) : InRange0(h.vertices, vec[i])

(***************************************************************************)
(* C12. Whatever loads of valid files (reloads included) and setCacheMode  *)
(* calls were made, every value of the active, the original and the        *)
(* optimized index sequence is less than the number of stored vertices.    *)
(***************************************************************************)
Thm_C12_IndicesInBounds ==
  AllLoadsValid =>
    /\ InBounds(objModel, objModel.indices)
    /\ InBounds(objModel, objModel.oriIndices)
    /\ InBounds(objModel, objModel.optiIndices)

Wit_C12_ReloadedAndShuffled ==
  /\ AllLoadsValid
  /\ Len(loaded) = 2
  /\ nShuffles = 1
  /\ lastCall.op = "setCacheMode"
  /\ Len(objModel.indices) > 0

(***************************************************************************)
(* C13. A setCacheMode call, whatever the mode, and a render call leave    *)
(* vertices, oriIndices and optiIndices as they were: of the handle only   *)
(* the active sequence can have a new value after the call.                *)
(***************************************************************************)
Thm_C13_OnlyActiveReassigned ==
  [][lastCall'.op \in {"setCacheMode", "render"} =>
       /\ objModel'.vertices = objModel.vertices
       /\ objModel'.oriIndices = objModel.oriIndices
       /\ objModel'.optiIndices = objModel.optiIndices
       /\ objModel' = [objModel EXCEPT !.indices = objModel'.indices]]_vars

Wit_C13_RenderAfterShuffle ==
  /\ lastCall.op = "render"
  /\ nShuffles = 1
  /\ Len(objModel.vertices) > 0
  /\ objModel.indices # objModel.eboData

(***************************************************************************)
(* C14. After a valid file was loaded into an empty handle the original    *)
(* sequence is the identity 0, 1, ..., N-1, N the number of vertices.      *)
(***************************************************************************)
Thm_C14_OriginalIsIdentity ==
  OneValidLoad =>
    /\ Len(objModel.oriIndices) = Len(objModel.vertices)
    /\ \A i \in 0..(Len(objModel.vertices) - 1) :
         At0(objModel.oriIndices, i) = i

Wit_C14_QuadLoadedOnce ==
  /\ loaded = <<"quad.obj">>
  /\ lastCall = Call("load", "quad.obj")
  /\ Len(objModel.oriIndices) = 2058
  /\ objModel.vao = 1

(***************************************************************************)
(* C15. Whatever loads (opened or not, of valid files) and setCacheMode    *)
(* calls were made, the active, the original and the optimized sequence    *)
(* have one length, a multiple of 3, which is the number of stored         *)
(* vertices; the number of elements a render call draws is the number of   *)
(* indices the last opened load put into the element buffer.               *)
(***************************************************************************)
Thm_C15_OneLength ==
  AllLoadsValid =>
    /\ Len(objModel.indices) = Len(objModel.vertices)
    /\ Len(objModel.oriIndices) = Len(objModel.vertices)
    /\ Len(objModel.optiIndices) = Len(objModel.vertices)
    /\ Len(objModel.vertices) % 3 = 0
    /\ Len(DrawElements(objModel)) = Len(objModel.eboData)
    /\ lastCall.op = "render" => Len(drawn) = Len(objModel.eboData)

Wit_C15_DrawAfterReload ==
  /\ AllLoadsValid
  /\ Len(loaded) = 2
  /\ FaceCount(loaded[1]) > 0
  /\ FaceCount(loaded[2]) > 0
  /\ lastCall.op = "render"
  /\ Len(drawn) = Len(objModel.vertices)

\* no file that got past the open check holds a face
NoFaceLoaded == \A i \in 1..Len(loaded) : FaceCount(loaded[i]) = 0

(***************************************************************************)
(* C16. A setCacheMode call, whatever the mode, returns normally exactly   *)
(* when the active sequence has at least 20 entries after the mode's       *)
(* assignment.  On a handle no face was ever parsed into the call ends     *)
(* with the out-of-range exception; once a file with a face was loaded it  *)
(* returns normally.                                                       *)
(***************************************************************************)
Thm_C16_ThrowsIffShort ==
  lastCall.op = "setCacheMode" =>
    /\ status = "running" <=> Len(objModel.indices) >= PrintCount
    /\ status = "terminated" <=> Len(objModel.indices) < PrintCount
    /\ NoFaceLoaded => status = "terminated"
    /\ ~NoFaceLoaded => status = "running"

Wit_C16_ThrowOnFacelessFile ==
  /\ lastCall.op = "setCacheMode"
  /\ status = "terminated"
  /\ loaded = <<"points.obj">>

\* the last call was a load that got past the open check and returned
AfterOpenedLoad ==
  /\ lastCall.op = "load"
  /\ ObjFiles[lastCall.arg].opens
  /\ status = "running"

(***************************************************************************)
(* C17. Right after a load that opened its file the active sequence is the *)
(* optimizer's output for the saved parse order, and it is what the        *)
(* element buffer holds and what a render call draws.                      *)
(***************************************************************************)
Thm_C17_ActiveIsOptimizerOutput ==
  AfterOpenedLoad =>
    LET n == Len(objModel.oriIndices)
    IN /\ objModel.indices =
            Resize(forsythReorderIndices(objModel.oriIndices, n \div 3,
                                         Len(objModel.vertices)), n)
       /\ objModel.eboData = objModel.indices
       /\ DrawElements(objModel) = objModel.indices

Wit_C17_ReorderedOnReload ==
  /\ AfterOpenedLoad
  /\ Len(loaded) = 2
  /\ objModel.indices # objModel.oriIndices
  /\ objModel.eboData = objModel.indices

====
